---- MODULE Spec2Model ----
(***************************************************************************)
(* Model of the action-request handlers of tor/core/user_interaction.py:   *)
(* process_coc, process_claim, process_done, process_unclaim,               *)
(* process_thanks, process_wrong_post_location and process_message, run    *)
(* one request at a time against the platform (flair, replies), the ledger *)
(* (Blossom) and the fast store (redis).                                   *)
(***************************************************************************)
EXTENDS Integers, Sequences, FiniteSets, TLC

\* ---------------------------------------------------------------- bounds
NumSubs == 2
NumUsers == 2
NumComments == 2
MaxRuns == 2

\* The submissions: work items posted by the bot and known to the ledger,
\* one submission posted by somebody else, and one post of the bot that the
\* ledger does not know.
WorkItems == 1..NumSubs
ForeignSub == NumSubs + 1
UnregisteredSub == NumSubs + 2
Subs == 1..(NumSubs + 2)
Users == 1..NumUsers
Comments == 1..NumComments
\* no user: the claimant of an unclaimed work item
NoUser == NumUsers + 1
\* no submission: the target of no run
NoSub == NumSubs + 3

\* ------------------------------------------------------- platform values
\* tor.__BOT_NAMES__, to which main() adds the bot's own account name
BOT_NAMES == {"transcribersofreddit"}

\* submission.author.name
subAuthor(s) == IF s = ForeignSub THEN "some_redditor" ELSE "transcribersofreddit"

\* the flair texts the handlers read and write (flair.unclaimed,
\* flair.in_progress, flair.completed)
flair_unclaimed == "Unclaimed"
flair_in_progress == "In Progress"
flair_completed == "Completed"
Flairs == {flair_unclaimed, flair_in_progress, flair_completed}

\* the fault kinds a platform call raises: praw's ClientException, and
\* APIException with error_type DELETED_COMMENT or with another error_type
FaultKinds == {"client", "api_deleted", "api_other"}
\* the platform calls of a handler run that can raise (at most one per run)
FaultPoints == {"reply", "user_flair", "flair_post"}

\* Comment.fullname and Submission.fullname: a kind prefix and a base-36 id
CommentFullname(c) == [kind |-> "t1", id |-> c]
SubmissionFullname(s) == [kind |-> "t3", id |-> s]
\* clean_id drops the kind prefix of a fullname
clean_id(fullname) == fullname.id

VARIABLES
    flairText,        \* submission.link_flair_text
    ledgerStatus,     \* the ledger's status of the work item
    ledgerClaimant,   \* the ledger's claimant of the work item
    ledgerUsers,      \* users the ledger knows
    ledgerCoC,        \* users for whom the ledger holds the claim prerequisite
    accepted_CoC,     \* redis set 'accepted_CoC'
    total_completed,  \* redis key 'total_completed'
    posts_completed,  \* per-user redis list 'posts_completed'
    userFlairUpdates, \* number of update_user_flair calls per user
    modchat,          \* number of messages sent to the moderation channel
    runs,             \* number of handler runs so far
    faulted,          \* whether some handler run raised to its caller
    workers,          \* the handlers running concurrently, one per worker
    last,             \* the last handler run: its request and what it did
    claimedBefore     \* <<actor, sub>> when the run before the last one was
                      \* a successful claim, NoClaim otherwise

vars == <<flairText, ledgerStatus, ledgerClaimant, ledgerUsers, ledgerCoC,
          accepted_CoC, total_completed, posts_completed, userFlairUpdates,
          modchat, runs, faulted, workers, last, claimedBefore>>

\* the lifecycle stage a flair text denotes, in the ledger's vocabulary
StageOfFlair(text) ==
    IF text = flair_unclaimed THEN "unclaimed"
    ELSE IF text = flair_in_progress THEN "claimed"
    ELSE "completed"

FlairOfStage(stage) ==
    IF stage = "unclaimed" THEN flair_unclaimed
    ELSE IF stage = "claimed" THEN flair_in_progress
    ELSE flair_completed

\* --------------------------------------------------------- handler runs
\* the platform call of a run that raised, if any, and the kind it raised
NoFault == [at |-> "none", kind |-> "none"]
Faults(points, kinds) == {NoFault} \cup [at : points, kind : kinds]

\* the answers of remove_if_required: (removed, reported)
NoRemoval == [removed |-> FALSE, reported |-> FALSE]
Removals == {NoRemoval, [removed |-> TRUE, reported |-> FALSE],
             [removed |-> TRUE, reported |-> TRUE]}

\* A request is the triggering comment (author, submission) and the handler's
\* arguments.  What the collaborators answer during the run (verification,
\* removal policy, a platform call raising) is drawn when the run asks.
Request(kind, actor, sub, override) ==
    [kind |-> kind, actor |-> actor, sub |-> sub, override |-> override]

\* claimedBefore when the run before the last was no successful claim
NoClaim == <<NoUser, NoSub>>

NoRun ==
    [kind |-> "none", actor |-> NoUser, sub |-> NoSub, override |-> FALSE,
     verification |-> "not_asked", fault |-> NoFault, removal |-> NoRemoval,
     outcome |-> "returned", replies |-> <<>>, delivered |-> FALSE,
     ledgerCalls |-> <<>>, first_time |-> FALSE, notified |-> FALSE]

\* what a handler run leaves in `last`: the request, what the collaborators
\* answered and what the handler did
RunRecord(req, answers, outcome, replies, delivered, ledgerCalls) ==
    [kind |-> req.kind, actor |-> req.actor, sub |-> req.sub,
     override |-> req.override,
     verification |-> answers.verification, fault |-> answers.fault,
     removal |-> answers.removal,
     outcome |-> outcome, replies |-> replies, delivered |-> delivered,
     ledgerCalls |-> ledgerCalls,
     first_time |-> answers.first_time, notified |-> answers.notified]

Answers(verification, fault, removal, first_time, notified) ==
    [verification |-> verification, fault |-> fault, removal |-> removal,
     first_time |-> first_time, notified |-> notified]

\* ------------------------------------------------------------- workers
\* the workers of the poll loop; worker w handles the comment numbered w
Workers == Comments

\* a worker that has not been handed a request
IdleWorker ==
    [pc |-> "idle", kind |-> "none", actor |-> NoUser, sub |-> NoSub,
     status |-> "none"]

\* ------------------------------------------------------ ownership guard
\* a guard that lets every post pass
Owns_Always(author) == TRUE

\* submission.author.name in __BOT_NAMES__
Owns(author) == author \in BOT_NAMES

\* ------------------------------------------------------------ the ledger
\* blossom.get_submission(reddit_id=submission.fullname).status
LedgerLookupStatus(s) == IF s \in WorkItems THEN "ok" ELSE "not_found"

\* blossom.claim_submission: compare-and-swap on the work item's status
LedgerClaimStatus(s, u) ==
    IF u \notin ledgerUsers THEN "not_found"
    ELSE IF u \notin ledgerCoC THEN "missing_prerequisite"
    ELSE IF ledgerStatus[s] = "unclaimed" THEN "ok"
    ELSE "already_claimed"

\* blossom.unclaim: compare-and-swap on the work item's status and claimant
LedgerUnclaimStatus(s, u) ==
    IF u \notin ledgerUsers THEN "not_found"
    ELSE IF ledgerStatus[s] = "completed" THEN "already_completed"
    ELSE IF ledgerStatus[s] = "unclaimed" THEN "unclaimed"
    ELSE IF ledgerClaimant[s] # u THEN "other_user"
    ELSE "ok"

\* The world the handlers start in: every work item at some lifecycle stage,
\* with ledger and flair agreeing on it; nothing completed or accepted yet in
\* the fast store.
Init ==
    /\ ledgerUsers \in SUBSET Users
    /\ ledgerCoC \in SUBSET ledgerUsers
    /\ ledgerStatus \in [Subs -> {"unclaimed", "claimed", "completed"}]
    /\ ledgerClaimant \in [Subs -> Users \cup {NoUser}]
    /\ \A s \in Subs :
          /\ (ledgerStatus[s] = "unclaimed") = (ledgerClaimant[s] = NoUser)
          /\ ledgerClaimant[s] # NoUser => ledgerClaimant[s] \in ledgerCoC
          /\ s \notin WorkItems => ledgerStatus[s] = "unclaimed"
    /\ flairText \in [Subs -> Flairs]
    /\ \A s \in Subs \ {ForeignSub} : flairText[s] = FlairOfStage(ledgerStatus[s])
    /\ accepted_CoC = {}
    /\ total_completed = 0
    /\ posts_completed = [u \in Users |-> <<>>]
    /\ userFlairUpdates = [u \in Users |-> 0]
    /\ modchat = 0
    /\ runs = 0
    /\ faulted = FALSE
    /\ last = NoRun
    /\ claimedBefore = NoClaim
    /\ workers = [w \in Workers |-> IdleWorker]

\* the run claimed its work item: the ledger answered ok, the post was
\* flaired and the success reply was delivered
ClaimSucceeded(run) ==
    /\ run.kind \in {"claim", "coc"}
    /\ run.outcome = "returned"
    /\ run.replies \in {<<"claim.success">>, <<"claim.first_claim_success">>}

\* a handler run ends: it is counted, and a fault it raised is remembered
Finish(run) ==
    /\ last' = run
    /\ runs' = runs + 1
    /\ faulted' = (faulted \/ run.outcome = "fault")
    /\ claimedBefore' = IF ClaimSucceeded(last) THEN <<last.actor, last.sub>>
                        ELSE NoClaim
    /\ UNCHANGED workers

\* ---------------------------------------------------------- process_claim
\* a lookup whose failure goes unnoticed
LookupFails_Never(status) == FALSE

\* response.status != BlossomStatus.ok after get_submission
LookupFails(status) == status # "ok"

\* a claim that leaves the flair alone
ClaimFlairsPost_Never(status) == FALSE

\* the branch of process_claim that flairs the post
ClaimFlairsPost(status) == status = "ok"

\* the reply process_claim selects for a claim response
ClaimMessage(status, first_time) ==
    IF status = "ok"
    THEN (IF first_time THEN "claim.first_claim_success" ELSE "claim.success")
    ELSE IF status = "missing_prerequisite" THEN "general.coc_not_accepted"
    ELSE IF status = "not_found" THEN "general.coc_not_accepted"
    ELSE "claim.already_claimed"

\* a claim that registers the actor whenever the code of conduct is missing
ClaimCreatesUser_Eager(status) ==
    status \in {"not_found", "missing_prerequisite"}

\* the claim branch that registers the actor with the ledger
ClaimCreatesUser(status) == status = "not_found"

\* process_claim(post, cfg, first_time); notified is what the caller
\* process_coc did before, recorded with the run
process_claim(req, first_time, notified) ==
    IF ~Owns(subAuthor(req.sub))
    THEN /\ Finish(RunRecord(req,
                   Answers("not_asked", NoFault, NoRemoval, first_time, notified),
                   "returned", <<>>, FALSE, <<>>))
         /\ UNCHANGED <<flairText, ledgerStatus, ledgerClaimant, ledgerUsers>>
    ELSE IF LookupFails(LedgerLookupStatus(req.sub))
    THEN /\ Finish(RunRecord(req,
                   Answers("not_asked", NoFault, NoRemoval, first_time, notified),
                   "fault", <<>>, FALSE, <<"get_submission">>))
         /\ UNCHANGED <<flairText, ledgerStatus, ledgerClaimant, ledgerUsers>>
    ELSE
      LET status == LedgerClaimStatus(req.sub, req.actor)
          message == ClaimMessage(status, first_time)
          points == IF ClaimFlairsPost(status)
                    THEN {"flair_post", "reply"} ELSE {"reply"}
          calls == <<"get_submission", "claim_submission">>
                   \o (IF ClaimCreatesUser(status) THEN <<"create_user">> ELSE <<>>)
      IN \E fault \in Faults(points, {"api_other"}) :
         LET flairFault == fault.at = "flair_post"
             replyFault == fault.at = "reply"
         IN
         /\ ledgerStatus' = IF status = "ok"
                            THEN [ledgerStatus EXCEPT ![req.sub] = "claimed"]
                            ELSE ledgerStatus
         /\ ledgerClaimant' = IF status = "ok"
                              THEN [ledgerClaimant EXCEPT ![req.sub] = req.actor]
                              ELSE ledgerClaimant
         /\ flairText' = IF ClaimFlairsPost(status) /\ ~flairFault
                         THEN [flairText EXCEPT ![req.sub] = flair_in_progress]
                         ELSE flairText
         /\ ledgerUsers' = IF ClaimCreatesUser(status)
                           THEN ledgerUsers \cup {req.actor}
                           ELSE ledgerUsers
         /\ Finish(RunRecord(req,
                   Answers("not_asked", fault, NoRemoval, first_time, notified),
                   IF flairFault \/ replyFault THEN "fault" ELSE "returned",
                   IF flairFault THEN <<>> ELSE <<message>>,
                   ~flairFault /\ ~replyFault,
                   calls))

\* the Claim handler run on one request
Claim ==
    /\ runs < MaxRuns
    /\ \E actor \in Users, sub \in Subs :
          process_claim(Request("claim", actor, sub, FALSE), FALSE, FALSE)
    /\ UNCHANGED <<ledgerCoC, accepted_CoC, total_completed, posts_completed,
                   userFlairUpdates, modchat>>

\* ------------------------------------------------------------ process_coc
\* cfg.redis.sadd('accepted_CoC', name): the number of members added
sadd(set, member) == IF member \in set THEN 0 ELSE 1

\* the first_time argument process_coc passes to process_claim
CoCFirstTime(result) == TRUE

\* the CoC-Acceptance handler run on one request
AcceptCoC ==
    /\ runs < MaxRuns
    /\ \E actor \in Users, sub \in Subs :
          LET result == sadd(accepted_CoC, actor)
          IN /\ accepted_CoC' = accepted_CoC \cup {actor}
             /\ modchat' = IF result = 1 THEN modchat + 1 ELSE modchat
             /\ process_claim(Request("coc", actor, sub, FALSE),
                              CoCFirstTime(result), result = 1)
    /\ UNCHANGED <<ledgerCoC, total_completed, posts_completed, userFlairUpdates>>

\* ----------------------------------------------------------- process_done
\* a branch test that takes an Unclaimed post for one In Progress
DoneBranch_UnclaimedAsInProgress(text) ==
    IF text \in {flair_unclaimed, flair_in_progress} THEN "in_progress"
    ELSE "other"

\* a branch test that takes a Completed post for one In Progress
DoneBranch_CompletedAsInProgress(text) ==
    IF text = flair_unclaimed THEN "unclaimed"
    ELSE IF text \in {flair_in_progress, flair_completed} THEN "in_progress"
    ELSE "other"

\* the branch process_done takes on top_parent.link_flair_text; among the
\* flair texts above, only flair.unclaimed contains flair.unclaimed
DoneBranch(text) ==
    IF text = flair_unclaimed THEN "unclaimed"
    ELSE IF text = flair_in_progress THEN "in_progress"
    ELSE "other"

\* a verification whose failure does not end the run
DoneRejects_Never(override, verification) == FALSE

\* not override and not verified_posted_transcript(post, cfg), which is
\* asked only without override
DoneRejects(override, verification) == ~override /\ verification = "failed"

\* the inner handlers of process_done: except ClientException
InnerSwallows(kind) == kind = "client"

\* the outer handler of process_done: except APIException, returning when
\* error_type is DELETED_COMMENT and re-raising otherwise
OuterSwallows(kind) == kind = "api_deleted"

\* how a fault that reaches the outer handler leaves process_done
OuterOutcome(kind) == IF OuterSwallows(kind) THEN "returned" ELSE "fault"

\* an acknowledgement whose alternative wording is an extra reply
DoneAckReplies_Both(alt) ==
    IF alt THEN <<"done.alt_completed_transcript", "done.completed_transcript">>
    ELSE <<"done.completed_transcript">>

\* the acknowledgement process_done replies with
DoneSuccessMessage(alt) ==
    IF alt THEN "done.alt_completed_transcript" ELSE "done.completed_transcript"

\* the replies of the completion: one post.reply, in either wording
DoneAckReplies(alt) == <<DoneSuccessMessage(alt)>>

\* the entry process_done appends to 'posts_completed'
DoneHistoryEntry(comment, sub) == clean_id(CommentFullname(comment))

\* author.list_update('posts_completed', entry); author.save()
list_update(list, entry) == Append(list, entry)

\* the Unclaimed branch: reply 'still unclaimed' inside the outer try
DoneStillUnclaimed(req) ==
    \E fault \in Faults({"reply"}, FaultKinds) :
       /\ Finish(RunRecord(req,
                 Answers("not_asked", fault, NoRemoval, FALSE, FALSE),
                 IF fault.at = "reply" THEN OuterOutcome(fault.kind) ELSE "returned",
                 <<"done.still_unclaimed">>, fault.at # "reply", <<>>))
       /\ UNCHANGED <<flairText, total_completed, posts_completed, userFlairUpdates>>

\* the verification failed: reply 'cannot find transcript' inside the inner
\* try, then return
DoneCannotFind(req, verification) ==
    \E fault \in Faults({"reply"}, FaultKinds) :
       /\ Finish(RunRecord(req,
                 Answers(verification, fault, NoRemoval, FALSE, FALSE),
                 IF fault.at = "reply" /\ ~InnerSwallows(fault.kind)
                 THEN OuterOutcome(fault.kind) ELSE "returned",
                 <<"done.cannot_find_transcript">>, fault.at # "reply", <<>>))
       /\ UNCHANGED <<flairText, total_completed, posts_completed, userFlairUpdates>>

\* the completion: reply, update_user_flair and the history in the inner
\* try; then flair_post and the counter
DoneComplete(req, verification, comment, alt) ==
    \E fault \in Faults(FaultPoints, FaultKinds) :
       LET k == fault.kind
           innerFault == fault.at \in {"reply", "user_flair"}
           innerEscapes == innerFault /\ ~InnerSwallows(k)
           flairPostFault == fault.at = "flair_post"
           didFlairPost == ~innerEscapes /\ ~flairPostFault
       IN /\ userFlairUpdates' =
                IF ~innerFault
                THEN [userFlairUpdates EXCEPT ![req.actor] = @ + 1]
                ELSE userFlairUpdates
          /\ posts_completed' =
                IF ~innerFault
                THEN [posts_completed EXCEPT
                        ![req.actor] = list_update(@, DoneHistoryEntry(comment, req.sub))]
                ELSE posts_completed
          /\ flairText' =
                IF didFlairPost
                THEN [flairText EXCEPT ![req.sub] = flair_completed]
                ELSE flairText
          /\ total_completed' =
                IF didFlairPost THEN total_completed + 1 ELSE total_completed
          /\ Finish(RunRecord(req,
                    Answers(verification, fault, NoRemoval, FALSE, FALSE),
                    IF innerEscapes \/ flairPostFault
                    THEN OuterOutcome(k) ELSE "returned",
                    DoneAckReplies(alt), fault.at # "reply", <<>>))

\* process_done(post, cfg, override, alt_text_trigger)
process_done(req, comment, alt) ==
    LET branch == DoneBranch(flairText[req.sub])
    IN IF ~Owns(subAuthor(req.sub)) \/ branch = "other"
       THEN /\ Finish(RunRecord(req,
                      Answers("not_asked", NoFault, NoRemoval, FALSE, FALSE),
                      "returned", <<>>, FALSE, <<>>))
            /\ UNCHANGED <<flairText, total_completed, posts_completed,
                           userFlairUpdates>>
       ELSE IF branch = "unclaimed"
       THEN DoneStillUnclaimed(req)
       ELSE \E verification \in (IF req.override THEN {"not_asked"}
                                 ELSE {"passed", "failed"}) :
               IF DoneRejects(req.override, verification)
               THEN DoneCannotFind(req, verification)
               ELSE DoneComplete(req, verification, comment, alt)

\* the Done handler run on one request
Done ==
    /\ runs < MaxRuns
    /\ \E actor \in Users, sub \in Subs, comment \in Comments,
          override \in BOOLEAN, alt \in BOOLEAN :
          process_done(Request("done", actor, sub, override), comment, alt)
    /\ UNCHANGED <<ledgerStatus, ledgerClaimant, ledgerUsers, ledgerCoC,
                   accepted_CoC, modchat>>

\* -------------------------------------------------------- process_unclaim
\* the top-level keys of the i18n table that the handlers index
I18nKeys == {"urls", "responses"}

\* the branch of process_unclaim that flairs the post and consults the
\* removal policy
UnclaimFlairsPost(status) == status = "ok"

\* the key process_unclaim looks up in i18n when the post was removed
RemovedMessageKey(reported) ==
    IF reported THEN "success_with_report" ELSE "success_without_report"

\* the reply process_unclaim selects for an unclaim response
UnclaimMessage(status) ==
    IF status = "ok" THEN "unclaim.success"
    ELSE IF status = "not_found" THEN "general.coc_not_accepted"
    ELSE IF status = "other_user" THEN "unclaim.claimed_other_user"
    ELSE IF status = "already_completed" THEN "unclaim.post_already_completed"
    ELSE "unclaim.still_unclaimed"

\* an unclaim that registers the actor whenever it is refused for the actor
UnclaimCreatesUser_Eager(status) == status \in {"not_found", "other_user"}

\* the unclaim branch that registers the actor with the ledger
UnclaimCreatesUser(status) == status = "not_found"

\* process_unclaim(post, cfg)
process_unclaim(req) ==
    IF ~Owns(subAuthor(req.sub))
    THEN /\ Finish(RunRecord(req,
                   Answers("not_asked", NoFault, NoRemoval, FALSE, FALSE),
                   "returned", <<>>, FALSE, <<>>))
         /\ UNCHANGED <<flairText, ledgerStatus, ledgerClaimant, ledgerUsers>>
    ELSE IF LookupFails(LedgerLookupStatus(req.sub))
    THEN /\ Finish(RunRecord(req,
                   Answers("not_asked", NoFault, NoRemoval, FALSE, FALSE),
                   "fault", <<>>, FALSE, <<"get_submission">>))
         /\ UNCHANGED <<flairText, ledgerStatus, ledgerClaimant, ledgerUsers>>
    ELSE
      LET status == LedgerUnclaimStatus(req.sub, req.actor)
          points == IF UnclaimFlairsPost(status)
                    THEN {"flair_post", "reply"} ELSE {"reply"}
      IN \E fault \in Faults(points, {"api_other"}) :
         \E removal \in (IF UnclaimFlairsPost(status) /\ fault.at # "flair_post"
                         THEN Removals ELSE {NoRemoval}) :
         LET flairFault == fault.at = "flair_post"
             \* i18n[key] raises KeyError when key is not a top-level key
             keyFault == /\ removal.removed
                         /\ RemovedMessageKey(removal.reported) \notin I18nKeys
             replyFault == ~keyFault /\ fault.at = "reply"
             calls == <<"get_submission", "unclaim">>
                      \o (IF UnclaimFlairsPost(status) /\ ~flairFault
                          THEN <<"remove_if_required">> ELSE <<>>)
                      \o (IF UnclaimCreatesUser(status)
                          THEN <<"create_user">> ELSE <<>>)
         IN
         /\ ledgerStatus' = IF status = "ok"
                            THEN [ledgerStatus EXCEPT ![req.sub] = "unclaimed"]
                            ELSE ledgerStatus
         /\ ledgerClaimant' = IF status = "ok"
                              THEN [ledgerClaimant EXCEPT ![req.sub] = NoUser]
                              ELSE ledgerClaimant
         /\ flairText' = IF UnclaimFlairsPost(status) /\ ~flairFault
                         THEN [flairText EXCEPT ![req.sub] = flair_unclaimed]
                         ELSE flairText
         /\ ledgerUsers' = IF UnclaimCreatesUser(status)
                           THEN ledgerUsers \cup {req.actor}
                           ELSE ledgerUsers
         /\ Finish(RunRecord(req,
                   Answers("not_asked",
                           IF keyFault THEN NoFault ELSE fault,
                           removal, FALSE, FALSE),
                   IF flairFault \/ keyFault \/ replyFault
                   THEN "fault" ELSE "returned",
                   IF flairFault \/ keyFault THEN <<>>
                   ELSE <<UnclaimMessage(status)>>,
                   ~flairFault /\ ~keyFault /\ ~replyFault,
                   calls))

\* the Unclaim handler run on one request
Unclaim ==
    /\ runs < MaxRuns
    /\ \E actor \in Users, sub \in Subs :
          process_unclaim(Request("unclaim", actor, sub, FALSE))
    /\ UNCHANGED <<ledgerCoC, accepted_CoC, total_completed, posts_completed,
                   userFlairUpdates, modchat>>

\* --------------------------------------------------------- process_thanks
\* except APIException, returning when error_type is DELETED_COMMENT and
\* re-raising otherwise
ThanksSwallows(kind) == kind = "api_deleted"

\* process_thanks(post, cfg)
process_thanks(req) ==
    \E fault \in Faults({"reply"}, FaultKinds) :
       Finish(RunRecord(req,
              Answers("not_asked", fault, NoRemoval, FALSE, FALSE),
              IF fault = NoFault \/ ThanksSwallows(fault.kind)
              THEN "returned" ELSE "fault",
              <<"general.youre_welcome">>, fault = NoFault, <<>>))

\* the Thanks handler run on one request
Thanks ==
    /\ runs < MaxRuns
    /\ \E actor \in Users : process_thanks(Request("thanks", actor, NoSub, FALSE))
    /\ UNCHANGED <<flairText, ledgerStatus, ledgerClaimant, ledgerUsers,
                   ledgerCoC, accepted_CoC, total_completed, posts_completed,
                   userFlairUpdates, modchat>>

\* -------------------------------------------- process_wrong_post_location
\* except APIException
MisplacedSwallows(kind) == kind \in {"api_deleted", "api_other"}

\* process_wrong_post_location(post, cfg)
process_wrong_post_location(req) ==
    \E fault \in Faults({"reply"}, FaultKinds) :
       Finish(RunRecord(req,
              Answers("not_asked", fault, NoRemoval, FALSE, FALSE),
              IF fault = NoFault \/ MisplacedSwallows(fault.kind)
              THEN "returned" ELSE "fault",
              <<"general.transcript_on_tor_post">>, fault = NoFault, <<>>))

\* the MisplacedPost handler run on one request
MisplacedPost ==
    /\ runs < MaxRuns
    /\ \E actor \in Users :
          process_wrong_post_location(Request("misplaced", actor, NoSub, FALSE))
    /\ UNCHANGED <<flairText, ledgerStatus, ledgerClaimant, ledgerUsers,
                   ledgerCoC, accepted_CoC, total_completed, posts_completed,
                   userFlairUpdates, modchat>>

\* -------------------------------------------------------- process_message
\* author.message(...) on a message without author: None has no attribute
AttributeError == [at |-> "author", kind |-> "attribute_error"]

\* whether author.message can be called on the author
CanMessage(author) == author # NoUser

\* process_message(message, cfg); author is NoUser when message.author is
\* None
process_message(req) ==
    IF ~CanMessage(req.actor)
       THEN /\ Finish(RunRecord(req,
                      Answers("not_asked", AttributeError, NoRemoval, FALSE, FALSE),
                      "fault", <<>>, FALSE, <<>>))
            /\ UNCHANGED modchat
       ELSE \E fault \in Faults({"reply"}, {"api_other"}) :
               /\ Finish(RunRecord(req,
                         Answers("not_asked", fault, NoRemoval, FALSE,
                                 fault = NoFault),
                         IF fault = NoFault THEN "returned" ELSE "fault",
                         <<"direct_message.dm_body">>, fault = NoFault, <<>>))
               /\ modchat' = IF fault = NoFault THEN modchat + 1 ELSE modchat

\* the DirectMessage handler run on one message
DirectMessage ==
    /\ runs < MaxRuns
    /\ \E author \in Users \cup {NoUser} :
          process_message(Request("message", author, NoSub, FALSE))
    /\ UNCHANGED <<flairText, ledgerStatus, ledgerClaimant, ledgerUsers,
                   ledgerCoC, accepted_CoC, total_completed, posts_completed,
                   userFlairUpdates>>

\* ------------------------------------------------- concurrent handlers
\* Several workers run one handler each, a step being one call to the
\* platform, the ledger or the fast store; none of the calls raises, the
\* posts are work items of the bot's, and the removal policy removes nothing.
At(w, kind, pc) == workers[w].kind = kind /\ workers[w].pc = pc

Goto(w, pc) == workers' = [workers EXCEPT ![w].pc = pc]

GotoWith(w, pc, status) ==
    workers' = [workers EXCEPT ![w].pc = pc, ![w].status = status]

\* what the concurrent handlers never touch
SequentialState == <<accepted_CoC, modchat, runs, faulted, last, claimedBefore>>

\* the poll loop hands a request to an idle worker
Dispatch(w) ==
    /\ workers[w].pc = "idle"
    /\ \E kind \in {"claim", "unclaim", "done"}, actor \in Users,
          sub \in WorkItems :
          workers' = [workers EXCEPT ![w] =
                         [pc |-> "start", kind |-> kind, actor |-> actor,
                          sub |-> sub, status |-> "none"]]
    /\ UNCHANGED <<flairText, ledgerStatus, ledgerClaimant, ledgerUsers,
                   ledgerCoC, total_completed, posts_completed,
                   userFlairUpdates, SequentialState>>

\* process_claim: cfg.blossom.claim_submission, one atomic ledger operation
ClaimLedger(w) ==
    /\ At(w, "claim", "start")
    /\ LET sub == workers[w].sub
           actor == workers[w].actor
           status == LedgerClaimStatus(sub, actor)
       IN /\ ledgerStatus' = IF status = "ok"
                             THEN [ledgerStatus EXCEPT ![sub] = "claimed"]
                             ELSE ledgerStatus
          /\ ledgerClaimant' = IF status = "ok"
                               THEN [ledgerClaimant EXCEPT ![sub] = actor]
                               ELSE ledgerClaimant
          /\ GotoWith(w, IF ClaimFlairsPost(status) THEN "flair" ELSE "reply",
                      status)
    /\ UNCHANGED <<flairText, ledgerUsers, ledgerCoC, total_completed,
                   posts_completed, userFlairUpdates, SequentialState>>

\* process_claim: flair_post(post.submission, flair.in_progress)
ClaimFlair(w) ==
    /\ At(w, "claim", "flair")
    /\ flairText' = [flairText EXCEPT ![workers[w].sub] = flair_in_progress]
    /\ Goto(w, "reply")
    /\ UNCHANGED <<ledgerStatus, ledgerClaimant, ledgerUsers, ledgerCoC,
                   total_completed, posts_completed, userFlairUpdates,
                   SequentialState>>

\* process_claim: create_user on not_found, then send_reddit_reply
ClaimReply(w) ==
    /\ At(w, "claim", "reply")
    /\ ledgerUsers' = IF ClaimCreatesUser(workers[w].status)
                      THEN ledgerUsers \cup {workers[w].actor}
                      ELSE ledgerUsers
    /\ Goto(w, "returned")
    /\ UNCHANGED <<flairText, ledgerStatus, ledgerClaimant, ledgerCoC,
                   total_completed, posts_completed, userFlairUpdates,
                   SequentialState>>

\* process_unclaim: cfg.blossom.unclaim, one atomic ledger operation
UnclaimLedger(w) ==
    /\ At(w, "unclaim", "start")
    /\ LET sub == workers[w].sub
           status == LedgerUnclaimStatus(sub, workers[w].actor)
       IN /\ ledgerStatus' = IF status = "ok"
                             THEN [ledgerStatus EXCEPT ![sub] = "unclaimed"]
                             ELSE ledgerStatus
          /\ ledgerClaimant' = IF status = "ok"
                               THEN [ledgerClaimant EXCEPT ![sub] = NoUser]
                               ELSE ledgerClaimant
          /\ GotoWith(w, IF UnclaimFlairsPost(status) THEN "flair" ELSE "reply",
                      status)
    /\ UNCHANGED <<flairText, ledgerUsers, ledgerCoC, total_completed,
                   posts_completed, userFlairUpdates, SequentialState>>

\* process_unclaim: flair_post(submission, flair.unclaimed)
UnclaimFlair(w) ==
    /\ At(w, "unclaim", "flair")
    /\ flairText' = [flairText EXCEPT ![workers[w].sub] = flair_unclaimed]
    /\ Goto(w, "reply")
    /\ UNCHANGED <<ledgerStatus, ledgerClaimant, ledgerUsers, ledgerCoC,
                   total_completed, posts_completed, userFlairUpdates,
                   SequentialState>>

\* process_unclaim: create_user on not_found, then send_reddit_reply
UnclaimReply(w) ==
    /\ At(w, "unclaim", "reply")
    /\ ledgerUsers' = IF UnclaimCreatesUser(workers[w].status)
                      THEN ledgerUsers \cup {workers[w].actor}
                      ELSE ledgerUsers
    /\ Goto(w, "returned")
    /\ UNCHANGED <<flairText, ledgerStatus, ledgerClaimant, ledgerCoC,
                   total_completed, posts_completed, userFlairUpdates,
                   SequentialState>>

\* process_done: the test of top_parent.link_flair_text and, on an In
\* Progress post, the verification; the replies of the branches that end the
\* run change no state
DoneRead(w) ==
    /\ At(w, "done", "start")
    /\ LET branch == DoneBranch(flairText[workers[w].sub])
       IN IF branch # "in_progress"
          THEN GotoWith(w, "returned", branch)
          ELSE \E verification \in {"passed", "failed"} :
                  GotoWith(w, IF DoneRejects(FALSE, verification)
                              THEN "returned" ELSE "ack", verification)
    /\ UNCHANGED <<flairText, ledgerStatus, ledgerClaimant, ledgerUsers,
                   ledgerCoC, total_completed, posts_completed,
                   userFlairUpdates, SequentialState>>

\* process_done: the acknowledgement and update_user_flair
DoneAck(w) ==
    /\ At(w, "done", "ack")
    /\ userFlairUpdates' = [userFlairUpdates EXCEPT ![workers[w].actor] = @ + 1]
    /\ Goto(w, "history")
    /\ UNCHANGED <<flairText, ledgerStatus, ledgerClaimant, ledgerUsers,
                   ledgerCoC, total_completed, posts_completed, SequentialState>>

\* process_done: author.list_update('posts_completed', ...); author.save()
DoneHistory(w) ==
    /\ At(w, "done", "history")
    /\ posts_completed' =
          [posts_completed EXCEPT ![workers[w].actor] =
              list_update(@, DoneHistoryEntry(w, workers[w].sub))]
    /\ Goto(w, "flair")
    /\ UNCHANGED <<flairText, ledgerStatus, ledgerClaimant, ledgerUsers,
                   ledgerCoC, total_completed, userFlairUpdates, SequentialState>>

\* process_done: flair_post(top_parent, flair.completed)
DoneFlair(w) ==
    /\ At(w, "done", "flair")
    /\ flairText' = [flairText EXCEPT ![workers[w].sub] = flair_completed]
    /\ Goto(w, "incr")
    /\ UNCHANGED <<ledgerStatus, ledgerClaimant, ledgerUsers, ledgerCoC,
                   total_completed, posts_completed, userFlairUpdates,
                   SequentialState>>

\* process_done: cfg.redis.incr('total_completed', amount=1)
DoneIncr(w) ==
    /\ At(w, "done", "incr")
    /\ total_completed' = total_completed + 1
    /\ Goto(w, "returned")
    /\ UNCHANGED <<flairText, ledgerStatus, ledgerClaimant, ledgerUsers,
                   ledgerCoC, posts_completed, userFlairUpdates, SequentialState>>

NextConc ==
    \E w \in Workers :
       \/ Dispatch(w)
       \/ ClaimLedger(w) \/ ClaimFlair(w) \/ ClaimReply(w)
       \/ UnclaimLedger(w) \/ UnclaimFlair(w) \/ UnclaimReply(w)
       \/ DoneRead(w) \/ DoneAck(w) \/ DoneHistory(w) \/ DoneFlair(w)
       \/ DoneIncr(w)

\* the world of Init with the post of another author left out of play
InitConc == Init /\ flairText[ForeignSub] = flair_unclaimed

SpecConc == InitConc /\ [][NextConc]_vars

\* ---------------------------------------------------------- specification
Next ==
    \/ Claim \/ AcceptCoC \/ Done \/ Unclaim
    \/ Thanks \/ MisplacedPost \/ DirectMessage

Spec == Init /\ [][Next]_vars

TypeOK ==
    /\ flairText \in [Subs -> Flairs]
    /\ ledgerStatus \in [Subs -> {"unclaimed", "claimed", "completed"}]
    /\ ledgerClaimant \in [Subs -> Users \cup {NoUser}]
    /\ ledgerCoC \subseteq Users /\ ledgerUsers \subseteq Users
    /\ accepted_CoC \subseteq Users
    /\ total_completed \in 0..MaxRuns
    /\ modchat \in 0..MaxRuns
    /\ runs \in 0..MaxRuns
    /\ faulted \in BOOLEAN
    /\ workers \in [Workers -> [pc : {"idle", "start", "flair", "reply", "ack",
                                      "history", "incr", "returned"},
                                kind : {"none", "claim", "unclaim", "done"},
                                actor : Users \cup {NoUser},
                                sub : WorkItems \cup {NoSub},
                                status : STRING]]

\* ------------------------------------------------------------ properties
\* a handler run took place in this step; last' describes it
Ran(kinds) == runs' = runs + 1 /\ last'.kind \in kinds

\* the post of the run is one of the bot's
OwnedPost(s) == subAuthor(s) \in BOT_NAMES

\* the run made the given call to the ledger or the removal policy
Called(run, call) ==
    \E i \in DOMAIN run.ledgerCalls : run.ledgerCalls[i] = call

RECURSIVE HistoryEntries(_)
\* the number of entries in the histories of the given users
HistoryEntries(users) ==
    IF users = {} THEN 0
    ELSE LET u == CHOOSE x \in users : TRUE
         IN Len(posts_completed[u]) + HistoryEntries(users \ {u})

\* C1: as long as no handler run has raised a fault, the ledger status and
\* the flair of every work item denote the same lifecycle stage.
C1_LedgerAndFlairAgree ==
    ~faulted => \A s \in WorkItems : StageOfFlair(flairText[s]) = ledgerStatus[s]

\* C2: a Done with override on an owned In Progress post that returns leaves
\* the post Completed, the counter one higher and the actor's history one
\* entry longer, the new entry being the id of the work item.
C2_OverrideDoneCompletes ==
    [][(/\ Ran({"done"}) /\ last'.override
        /\ OwnedPost(last'.sub)
        /\ flairText[last'.sub] = flair_in_progress
        /\ last'.outcome = "returned")
       => (/\ flairText'[last'.sub] = flair_completed
           /\ total_completed' = total_completed + 1
           /\ posts_completed' =
                 [posts_completed EXCEPT ![last'.actor] =
                     Append(@, clean_id(SubmissionFullname(last'.sub)))])]_vars

\* C3: when the acknowledgement reply of a Done on the success path fails
\* because the comment was deleted, reported as a client-side fault or as an
\* API rejection DELETED_COMMENT, the handler returns and the completion still
\* occurs: flair Completed, counter one higher.
C3_DeletedAckStillCompletes ==
    [][(/\ Ran({"done"})
        /\ OwnedPost(last'.sub)
        /\ flairText[last'.sub] = flair_in_progress
        /\ (last'.override \/ last'.verification = "passed")
        /\ last'.fault.at = "reply"
        /\ last'.fault.kind \in {"client", "api_deleted"})
       => (/\ last'.outcome = "returned"
           /\ flairText'[last'.sub] = flair_completed
           /\ total_completed' = total_completed + 1)]_vars

\* C4: the counter has increased by as much as the histories have gained
\* entries.
C4_CounterEqualsHistory == total_completed = HistoryEntries(Users)

\* C5: an AcceptCoC of an actor who had accepted before sends no notification
\* and runs the Claim handler with first_time false, so a successful claim is
\* answered with the repeat-claim reply.
C5_RepeatedCoCIsPlainClaim ==
    [][(Ran({"coc"}) /\ last'.actor \in accepted_CoC)
       => (/\ ~last'.notified
           /\ modchat' = modchat
           /\ ~last'.first_time
           /\ last'.replies # <<"claim.first_claim_success">>)]_vars

\* C6: when the run before was a successful claim of a work item, a Done of
\* the same actor on it without override, with no verification failure and no
\* fault, leaves the flair Completed; an Unclaim of the same actor with no
\* fault and nothing removed leaves the flair Unclaimed.
C6_RoundTrip ==
    (/\ claimedBefore = <<last.actor, last.sub>>
     /\ last.fault = NoFault
     /\ last.removal = NoRemoval)
    => (/\ (last.kind = "done" /\ ~last.override /\ last.verification # "failed")
              => (flairText[last.sub] = flair_completed /\ last.outcome = "returned")
        /\ last.kind = "unclaim"
              => (flairText[last.sub] = flair_unclaimed /\ last.outcome = "returned"))

C6_Witness ==
    /\ claimedBefore = <<last.actor, last.sub>>
    /\ last.kind = "done" /\ ~last.override /\ last.verification = "passed"
    /\ last.fault = NoFault
    /\ flairText[last.sub] = flair_completed

\* C7: Claim, Unclaim and Done on a post whose author is not a bot identity
\* return without a ledger call, a reply or any change.
C7_ForeignPostUntouched ==
    [][(Ran({"claim", "unclaim", "done"}) /\ ~OwnedPost(last'.sub))
       => (/\ last'.outcome = "returned"
           /\ last'.ledgerCalls = <<>>
           /\ last'.replies = <<>>
           /\ UNCHANGED <<flairText, ledgerStatus, ledgerClaimant, ledgerUsers,
                          ledgerCoC, accepted_CoC, total_completed,
                          posts_completed, userFlairUpdates, modchat>>)]_vars

C7_Witness ==
    /\ last.kind = "done" /\ last.override
    /\ ~OwnedPost(last.sub)
    /\ flairText[last.sub] = flair_in_progress
    /\ last.outcome = "returned" /\ last.replies = <<>>

\* C8: a Done on an owned post whose flair is Unclaimed attempts exactly the
\* 'still unclaimed' reply, delivers it unless the reply raises, and changes
\* nothing else.
C8_DoneOnUnclaimed ==
    [][(/\ Ran({"done"})
        /\ OwnedPost(last'.sub)
        /\ flairText[last'.sub] = flair_unclaimed)
       => (/\ last'.replies = <<"done.still_unclaimed">>
           /\ last'.fault = NoFault => (last'.delivered /\ last'.outcome = "returned")
           /\ last'.ledgerCalls = <<>>
           /\ UNCHANGED <<flairText, ledgerStatus, ledgerClaimant, ledgerUsers,
                          total_completed, posts_completed, userFlairUpdates>>)]_vars

C8_Witness ==
    /\ last.kind = "done" /\ last.sub \in WorkItems
    /\ last.replies = <<"done.still_unclaimed">> /\ last.delivered
    /\ flairText[last.sub] = flair_unclaimed
    /\ total_completed = 0

\* C9: a Done without override on an owned In Progress post whose verification
\* fails attempts the 'cannot find transcript' reply and mutates nothing,
\* whether the reply is delivered, its fault swallowed or its fault raised.
C9_FailedVerificationMutatesNothing ==
    [][(/\ Ran({"done"})
        /\ OwnedPost(last'.sub)
        /\ flairText[last'.sub] = flair_in_progress
        /\ ~last'.override /\ last'.verification = "failed")
       => (/\ last'.replies = <<"done.cannot_find_transcript">>
           /\ last'.delivered = (last'.fault = NoFault)
           /\ last'.outcome = (IF last'.fault.kind = "api_other"
                               THEN "fault" ELSE "returned")
           /\ UNCHANGED <<flairText, total_completed, posts_completed,
                          userFlairUpdates>>)]_vars

C9_Witness ==
    /\ last.kind = "done" /\ ~last.override /\ last.verification = "failed"
    /\ last.fault = [at |-> "reply", kind |-> "client"]
    /\ last.outcome = "returned"
    /\ flairText[last.sub] = flair_in_progress
    /\ total_completed = 0

\* C10: Claim and Unclaim on an owned post the ledger lookup does not find
\* raise a fault after the lookup alone: no claim or unclaim call, no reply,
\* no change of flair or ledger.
C10_UnregisteredFaults ==
    [][(/\ Ran({"claim", "coc", "unclaim"})
        /\ OwnedPost(last'.sub)
        /\ LedgerLookupStatus(last'.sub) = "not_found")
       => (/\ last'.outcome = "fault"
           /\ last'.ledgerCalls = <<"get_submission">>
           /\ last'.replies = <<>>
           /\ UNCHANGED <<flairText, ledgerStatus, ledgerClaimant,
                          ledgerUsers>>)]_vars

C10_Witness ==
    /\ last.kind = "unclaim" /\ last.sub = UnregisteredSub
    /\ last.outcome = "fault" /\ faulted
    /\ last.ledgerCalls = <<"get_submission">>

\* C11: an Unclaim the ledger answers with ok, none of whose platform calls
\* raises, sets the flair Unclaimed, consults the removal policy and returns
\* after exactly one reply: success-with-report when the post was removed and
\* reported, success-without-report when removed and not reported, the plain
\* success otherwise.
C11_UnclaimOkReplies ==
    [][(/\ Ran({"unclaim"})
        /\ OwnedPost(last'.sub) /\ last'.sub \in WorkItems
        /\ LedgerUnclaimStatus(last'.sub, last'.actor) = "ok"
        /\ last'.fault = NoFault)
       => (/\ flairText'[last'.sub] = flair_unclaimed
           /\ Called(last', "remove_if_required")
           /\ last'.outcome = "returned"
           /\ last'.replies =
                 <<IF last'.removal.removed /\ last'.removal.reported
                   THEN "unclaim.success_with_report"
                   ELSE IF last'.removal.removed
                   THEN "unclaim.success_without_report"
                   ELSE "unclaim.success">>)]_vars

\* C12: an Unclaim the ledger does not answer with ok leaves every flair as
\* it was and does not consult the removal policy; it replies 'post already
\* completed', 'claimed by someone else', 'please accept the code of conduct'
\* or 'still unclaimed' according to the answer, and registers the actor
\* with the ledger for the answer not-found only.
C12_UnclaimRefused ==
    [][(/\ Ran({"unclaim"})
        /\ OwnedPost(last'.sub) /\ last'.sub \in WorkItems
        /\ LedgerUnclaimStatus(last'.sub, last'.actor) # "ok")
       => LET status == LedgerUnclaimStatus(last'.sub, last'.actor)
          IN /\ flairText' = flairText
             /\ ~Called(last', "remove_if_required")
             /\ last'.removal = NoRemoval
             /\ last'.replies =
                   <<CASE status = "already_completed"
                            -> "unclaim.post_already_completed"
                       [] status = "other_user" -> "unclaim.claimed_other_user"
                       [] status = "not_found" -> "general.coc_not_accepted"
                       [] OTHER -> "unclaim.still_unclaimed">>
             /\ Called(last', "create_user") <=> status = "not_found"
             /\ ledgerUsers' = IF status = "not_found"
                               THEN ledgerUsers \cup {last'.actor}
                               ELSE ledgerUsers]_vars

C12_Witness ==
    /\ last.kind = "unclaim" /\ last.sub \in WorkItems
    /\ last.replies = <<"unclaim.claimed_other_user">>
    /\ last.outcome = "returned"
    /\ ~Called(last, "create_user")
    /\ flairText[last.sub] = flair_in_progress

\* C13: the Claim handler sets the flair In Progress only when the ledger
\* answers ok, and does so whenever it answers ok and flairing raises no
\* fault; on missing-prerequisite and on not-found it replies with the code
\* of conduct prompt and registers the actor on not-found only; on every
\* other refusal it replies 'already claimed by someone'; no refusal changes
\* a flair.
C13_ClaimBranches ==
    [][(/\ Ran({"claim", "coc"})
        /\ OwnedPost(last'.sub) /\ last'.sub \in WorkItems)
       => LET status == LedgerClaimStatus(last'.sub, last'.actor)
          IN /\ (status = "ok" /\ last'.fault.at # "flair_post")
                   => flairText'[last'.sub] = flair_in_progress
             /\ status # "ok"
                   => /\ flairText' = flairText
                      /\ last'.replies =
                            <<IF status \in {"missing_prerequisite", "not_found"}
                              THEN "general.coc_not_accepted"
                              ELSE "claim.already_claimed">>
             /\ Called(last', "create_user") <=> status = "not_found"
             /\ ledgerUsers' = IF status = "not_found"
                               THEN ledgerUsers \cup {last'.actor}
                               ELSE ledgerUsers]_vars

C13_Witness ==
    /\ last.kind = "claim" /\ last.sub \in WorkItems
    /\ last.replies = <<"general.coc_not_accepted">>
    /\ Called(last, "create_user")
    /\ last.actor \in ledgerUsers /\ last.actor \notin ledgerCoC
    /\ flairText[last.sub] = flair_unclaimed

\* C14: no run of a handler, on any branch and whatever fault it meets,
\* attempts more than one reply.
C14_AtMostOneReply == Len(last.replies) <= 1

C14_Witness ==
    /\ last.kind = "done" /\ last.sub \in WorkItems
    /\ last.replies = <<"done.alt_completed_transcript">>
    /\ last.fault = [at |-> "reply", kind |-> "client"]
    /\ last.outcome = "returned"
    /\ flairText[last.sub] = flair_completed

\* C15: the DirectMessage handler, for every message, the one without a
\* sender included, returns without a fault of its own after it has forwarded
\* the message to the moderation channel.
C15_MessageAlwaysForwarded ==
    [][(Ran({"message"}) /\ last'.fault.at # "reply")
       => (/\ last'.outcome = "returned"
           /\ modchat' = modchat + 1)]_vars

\* C16: in the Done handler on an owned post a platform call that raises the
\* API rejection DELETED_COMMENT makes the handler return, one that raises
\* another API rejection makes it raise, and a 'still unclaimed' reply that
\* fails because the comment was deleted makes it return whether the fault
\* is the client-side one or the API rejection.
C16_DoneDeletedCommentBenign ==
    [][(Ran({"done"}) /\ OwnedPost(last'.sub))
       => (/\ last'.fault.kind = "api_deleted" => last'.outcome = "returned"
           /\ last'.fault.kind = "api_other" => last'.outcome = "fault"
           /\ (/\ flairText[last'.sub] = flair_unclaimed
               /\ last'.fault.at = "reply"
               /\ last'.fault.kind \in {"client", "api_deleted"})
                 => last'.outcome = "returned")]_vars

\* C17: the MisplacedPost handler returns without a fault whatever fault its
\* reply raises.
C17_MisplacedNeverFaults ==
    [][Ran({"misplaced"}) => last'.outcome = "returned"]_vars

\* C18: a Done, with or without override, on an owned post whose flair is
\* Completed attempts no reply and returns, and leaves the flair, the
\* counter, the histories and the user flairs as they were.
C18_CompletedAbsorbsDone ==
    [][(/\ Ran({"done"})
        /\ OwnedPost(last'.sub)
        /\ flairText[last'.sub] = flair_completed)
       => (/\ last'.replies = <<>>
           /\ last'.outcome = "returned"
           /\ UNCHANGED <<flairText, total_completed, posts_completed,
                          userFlairUpdates>>)]_vars

\* the second of two runs is a Done on a work item the first, a Done, had
\* completed: the ledger still holds it as claimed
C18_Witness ==
    /\ runs = 2 /\ total_completed = 1
    /\ last.kind = "done" /\ last.override /\ last.sub \in WorkItems
    /\ last.replies = <<>> /\ last.outcome = "returned"
    /\ flairText[last.sub] = flair_completed
    /\ ledgerStatus[last.sub] = "claimed"

\* the work items the workers' Done requests are for
DoneItems ==
    {s \in WorkItems :
        \E w \in Workers : workers[w].kind = "done" /\ workers[w].sub = s}

\* C19: when the workers handle Done requests only, under every interleaving
\* the counter has increased by at most one, and the histories have gained at
\* most one entry, for each work item the requests are for.
C19_ConcurrentDoneCountsOnce ==
    (\A w \in Workers : workers[w].kind \in {"none", "done"})
    => (/\ total_completed <= Cardinality(DoneItems)
        /\ HistoryEntries(Users) <= Cardinality(DoneItems))

\* C20: when the workers have handled Claim and Unclaim requests, the ledger
\* operations being atomic, and all have returned, under every interleaving
\* the flair of every work item denotes the ledger's status of it.
C20_ConcurrentFlairFollowsLedger ==
    (\A w \in Workers : /\ workers[w].kind \in {"claim", "unclaim"}
                        /\ workers[w].pc = "returned")
    => \A s \in WorkItems : StageOfFlair(flairText[s]) = ledgerStatus[s]

====
